---- MODULE Spec2Model ----
(***************************************************************************)
(* pyfastogt: the platform registry (pyfastogt/system_info.py) and the     *)
(* build drivers and BuildRequest session (pyfastogt/build_utils.py).      *)
(*                                                                         *)
(* Paths are sequences of directory names from the filesystem root.        *)
(* Strings are TLA+ strings; formatting ('%s' % x) is concatenation.       *)
(* An operation that raises leaves the name of the exception in            *)
(* result.outcome; "ok" is a normal return.                                *)
(***************************************************************************)
EXTENDS Naturals, Sequences, FiniteSets, TLC

\* ---------------------------------------------------------------- bounds
\* 'install' tokens a catalog command line may accumulate before the model
\* stops calling drivers on it.
MaxInstalls == 2
\* Deepest directory the model creates.
MaxDepth == 5
\* Operations of one run.
MaxOps == 3
\* Patch files a patch directory may hold.
MaxPatches == 2

\* ------------------------------------------------------------- sequences
Last(s) == s[Len(s)]

Parent(p) == IF Len(p) = 0 THEN p ELSE SubSeq(p, 1, Len(p) - 1)

IsPrefix(p, q) == Len(p) <= Len(q) /\ SubSeq(q, 1, Len(p)) = p

Range(s) == {s[i] : i \in 1..Len(s)}

\* next((x for x in seq if pred(x)), None): the index of the first match, 0 if none
FirstIndex(seq, name) ==
    IF \E i \in 1..Len(seq) : seq[i].name = name
    THEN CHOOSE i \in 1..Len(seq) :
            /\ seq[i].name = name
            /\ \A j \in 1..(i - 1) : seq[j].name # name
    ELSE 0

None == [name |-> "None"]

\* ------------------------------------------------------------ filesystem
\* shutil.rmtree(p): p and everything below it is gone
RmTree(files, p) == {q \in files : ~IsPrefix(p, q)}

\* os.path.abspath(path): a relative path is joined to the working directory.
\* An argument path is <<"/">> \o names when absolute, names when relative.
AbsPath(dir, path) ==
    IF Len(path) > 0 /\ path[1] = "/" THEN Tail(path) ELSE dir \o path

\* os.path.expanduser(path): a leading '~' is replaced by the user's home
ExpandUser(path) ==
    CASE path = "~/fastogt" -> "/home/user/fastogt"
      [] path = "~" -> "/home/user"
      [] OTHER -> path

\* str.upper() on the distribution names the host may report
Upper(s) ==
    CASE s = "Ubuntu" -> "UBUNTU"
      [] s = "debian" -> "DEBIAN"
      [] s = "LinuxMint" -> "LINUXMINT"
      [] s = "CentOS Linux" -> "CENTOS LINUX"
      [] s = "Fedora" -> "FEDORA"
      [] s = "rhel" -> "RHEL"
      [] s = "arch" -> "ARCH"
      [] s = "Gentoo" -> "GENTOO"
      [] OTHER -> s

\* str.lower() on the build types callers pass
Lower(s) ==
    CASE s = "RELEASE" -> "release"
      [] s = "Release" -> "release"
      [] s = "DEBUG" -> "debug"
      [] s = "Debug" -> "debug"
      [] OTHER -> s

\* -------------------------------------------------------------- registry
Architecture(arch_str, bit, default_install_prefix_path) ==
    [name |-> arch_str, bit |-> bit,
     default_install_prefix_path |-> default_install_prefix_path]

LinuxPlatforms ==
    [name |-> "linux",
     archs |-> << Architecture("x86_64", 64, "/usr/local"),
                  Architecture("i386", 32, "/usr/local"),
                  Architecture("i686", 32, "/usr/local"),
                  Architecture("aarch64", 64, "/usr/local"),
                  Architecture("armv7l", 32, "/usr/local"),
                  Architecture("armv6l", 32, "/usr/local") >>,
     package_types |-> << "DEB", "RPM", "TGZ" >>]

WindowsPlatforms ==
    [name |-> "windows",
     archs |-> << Architecture("x86_64", 64, "/mingw64"),
                  Architecture("AMD64", 64, "/mingw64"),
                  Architecture("i386", 32, "/mingw32"),
                  Architecture("i686", 32, "/mingw32") >>,
     package_types |-> << "NSIS", "ZIP" >>]

MacOSXPlatforms ==
    [name |-> "macosx",
     archs |-> << Architecture("x86_64", 64, "/usr/local") >>,
     package_types |-> << "DragNDrop", "ZIP" >>]

FreeBSDPlatforms ==
    [name |-> "freebsd",
     archs |-> << Architecture("x86_64", 64, "/usr/local"),
                  Architecture("amd64", 64, "/usr/local") >>,
     package_types |-> << "TGZ" >>]

AndroidPlatforms ==
    [name |-> "android",
     archs |-> << Architecture("arm", 32,
                      "/opt/android-ndk/platforms/android-16/arch-arm/usr/"),
                  Architecture("i386", 32,
                      "/opt/android-ndk/platforms/android-16/arch-x86/usr/") >>,
     package_types |-> << "APK" >>]

SUPPORTED_PLATFORMS ==
    << LinuxPlatforms, WindowsPlatforms, MacOSXPlatforms, FreeBSDPlatforms,
       AndroidPlatforms >>

get_supported_platform_by_name(platform) ==
    LET i == FirstIndex(SUPPORTED_PLATFORMS, platform)
    IN  IF i = 0 THEN None ELSE SUPPORTED_PLATFORMS[i]

\* SupportedPlatforms.architecture_by_arch_name: the first architecture of
\* the family with that name, None when there is none
architecture_by_arch_name(family, arch_name) ==
    LET i == FirstIndex(family.archs, arch_name)
    IN  IF i = 0 THEN None ELSE family.archs[i]

\* linux_get_dist taking a host it does not recognise for a Debian one
linux_get_dist_guessing(dist_name) ==
    LET dist_name_upper == Upper(dist_name)
    IN  IF dist_name_upper \in {"RHEL", "CENTOS LINUX", "FEDORA"} THEN "RHEL"
        ELSE IF dist_name_upper \in {"ARCH"} THEN "ARCH"
        ELSE "DEBIAN"

\* linux_get_dist: the distribution group; an unknown name reaches
\* 'raise NotImplemented(...)', and calling NotImplemented is a TypeError
linux_get_dist(dist_name) ==
    LET dist_name_upper == Upper(dist_name)
    IN  IF dist_name_upper \in {"RHEL", "CENTOS LINUX", "FEDORA"} THEN "RHEL"
        ELSE IF dist_name_upper \in {"DEBIAN", "UBUNTU", "LINUXMINT"} THEN "DEBIAN"
        ELSE IF dist_name_upper \in {"ARCH"} THEN "ARCH"
        ELSE "TypeError"

\* Platform.__init__ through the variant's constructor
Platform(cls, name, arch, package_types) ==
    [cls |-> cls, name |-> name, arch |-> arch, package_types |-> package_types]

\* make_platform_by_arch with the linux family falling back to Debian
\* whatever the host reports
make_platform_by_arch_debian_default(family, arch, package_types, dist_name) ==
    LET cls == CASE family.name = "linux" -> "DebianPlatform"
                 [] family.name = "windows" -> "WindowsMingwPlatform"
                 [] family.name = "macosx" -> "MacOSXCommonPlatform"
                 [] family.name = "freebsd" -> "FreeBSDCommonPlatform"
                 [] family.name = "android" -> "AndroidCommonPlatform"
    IN  [raised |-> "", value |-> Platform(cls, family.name, arch, package_types)]

\* The factory method of each family.  [raised, value]: raised is "" on a
\* normal return.
make_platform_by_arch(family, arch, package_types, dist_name) ==
    LET made(cls) == [raised |-> "",
                      value |-> Platform(cls, family.name, arch, package_types)]
    IN  CASE family.name = "linux" ->
               LET distr == linux_get_dist(dist_name)
               IN  IF distr = "DEBIAN" THEN made("DebianPlatform")
                   ELSE IF distr = "RHEL" THEN made("RedHatPlatform")
                   ELSE IF distr = "ARCH" THEN made("ArchPlatform")
                   ELSE [raised |-> "TypeError", value |-> None]
          [] family.name = "windows" -> made("WindowsMingwPlatform")
          [] family.name = "macosx" -> made("MacOSXCommonPlatform")
          [] family.name = "freebsd" -> made("FreeBSDCommonPlatform")
          [] family.name = "android" -> made("AndroidCommonPlatform")

\* Platform.install_package of each variant: the command line it hands to
\* subprocess.call, or the exception it raises
install_package(plat, name) ==
    CASE plat.cls = "DebianPlatform" ->
           [raised |-> "",
            argv |-> << "apt-get", "-y", "--no-install-recommends", "install", name >>]
      [] plat.cls = "RedHatPlatform" ->
           [raised |-> "", argv |-> << "yum", "-y", "install", name >>]
      [] plat.cls = "ArchPlatform" ->
           [raised |-> "", argv |-> << "pacman", "-S", "--noconfirm", name >>]
      [] plat.cls = "WindowsMingwPlatform" ->
           [raised |-> "", argv |-> << "pacman", "-S", "--noconfirm", name >>]
      [] plat.cls = "MacOSXCommonPlatform" ->
           [raised |-> "", argv |-> << "port", "install", name >>]
      [] plat.cls = "FreeBSDCommonPlatform" ->
           [raised |-> "NotImplementedError", argv |-> << >>]
      [] plat.cls = "AndroidCommonPlatform" ->
           [raised |-> "NotImplementedError", argv |-> << >>]

\* ------------------------------------------------- build-system catalog
BuildSystem(name, cmd_line, cmake_generator_arg) ==
    [name |-> name, cmd_line |-> cmd_line,
     cmake_generator_arg |-> cmake_generator_arg]

SUPPORTED_BUILD_SYSTEMS ==
    << BuildSystem("ninja", << "ninja" >>, "Ninja"),
       BuildSystem("make", << "make", "-j2" >>, "Unix Makefiles"),
       BuildSystem("gmake", << "gmake", "-j2" >>, "Unix Makefiles") >>

BuildSystemNames == {SUPPORTED_BUILD_SYSTEMS[i].name : i \in 1..Len(SUPPORTED_BUILD_SYSTEMS)}

\* The catalog entry of that name, None when there is none.  The entry's
\* cmd_line_ list is one mutable object: its current content is cmdLines[name].
get_supported_build_system_by_name(name) ==
    LET i == FirstIndex(SUPPORTED_BUILD_SYSTEMS, name)
    IN  IF i = 0 THEN None ELSE SUPPORTED_BUILD_SYSTEMS[i]

\* ------------------------------------------------------- native commands
\* One subprocess.call: the command line, the directory it ran in, and how
\* it ended: "0", "1" (a non-zero exit status, which subprocess.call
\* returns), or "OSError" (subprocess.call raised: no such executable).
Call(argv, rc, dir) == [argv |-> argv, rc |-> rc, dir |-> dir]

Rcs == {"0", "1", "OSError"}

\* The outcomes of n successive native commands: at most one of them fails.
StepOutcomes(n) ==
    {o \in [1..n -> Rcs] : Cardinality({i \in 1..n : o[i] # "0"}) <= 1}

\* os.mkdir(p): [raised, fs]
Mkdir(files, p) ==
    IF p \in files THEN [raised |-> "FileExistsError", fs |-> files]
    ELSE IF Parent(p) \notin files THEN [raised |-> "FileNotFoundError", fs |-> files]
    ELSE [raised |-> "", fs |-> files \cup {p}]

\* What a cmake run that started leaves in the build directory it ran in.
CMakeOutput(files, dir, rc) ==
    IF rc = "OSError" THEN files ELSE files \cup {dir \o << "CMakeFiles" >>}

\* RemoveStale without the rmtree: a stale build directory is left in place
RemoveStale_kept(files, build_dir) == files

\* if os.path.exists(build_dir_name): shutil.rmtree(build_dir_name)
RemoveStale(files, build_dir) ==
    IF build_dir \in files THEN RmTree(files, build_dir) ELSE files

\* cmake_line of build_command_cmake
CMakeLine(generator, build_type, cmake_flags, abs_prefix_path) ==
    << "cmake", "..", "-G", generator, "-DCMAKE_BUILD_TYPE=" \o build_type >>
        \o cmake_flags
        \o << "-DCMAKE_INSTALL_PREFIX=" \o abs_prefix_path >>

\* The build step, the append of 'install' to the catalog entry's own list,
\* the install step and the ldconfig step, shared by both drivers.
\* w: [cwd, fs, cmdLines, calls]; o: the outcomes of the build and the
\* install command; error: the exception a raising command ends the driver
\* with.
MakeAndInstall(w, bs, o, ldconfig, error) ==
    LET make_line == w.cmdLines[bs]
        c1 == Append(w.calls, Call(make_line, o[1], w.cwd))
        install_line == Append(make_line, "install")
        cl2 == [w.cmdLines EXCEPT ![bs] = install_line]
        c2 == Append(c1, Call(install_line, o[2], w.cwd))
        c3 == IF ldconfig THEN Append(c2, Call(<< "ldconfig" >>, "0", w.cwd)) ELSE c2
    IN  IF o[1] = "OSError"
        THEN [w EXCEPT !.calls = c1, !.outcome = error]
        ELSE IF o[2] = "OSError"
        THEN [w EXCEPT !.calls = c2, !.cmdLines = cl2, !.outcome = error]
        ELSE [w EXCEPT !.calls = c3, !.cmdLines = cl2, !.outcome = "ok"]

\* build_command_cmake(prefix_path, cmake_flags, build_type, build_system).
\* w: [cwd, fs, cmdLines, calls, outcome, removed, fetched]; o: the outcomes
\* of cmake, the build and the install command; ldconfig: shutil.which finds
\* ldconfig.  w.removed records that a stale build directory was removed.
build_command_cmake(w, prefix_path, cmake_flags, build_type, bs, o, ldconfig) ==
    LET abs_prefix_path == ExpandUser(prefix_path)
        build_system == get_supported_build_system_by_name(bs)
        cmake_line == CMakeLine(build_system.cmake_generator_arg, build_type,
                                cmake_flags, abs_prefix_path)
        build_dir == w.cwd \o << "build_cmake_" \o Lower(build_type) >>
        made == Mkdir(RemoveStale(w.fs, build_dir), build_dir)
        inDir == [w EXCEPT !.fs = CMakeOutput(made.fs, build_dir, o[1]),
                           !.removed = build_dir \in w.fs,
                           !.cwd = build_dir,
                           !.calls = Append(w.calls, Call(cmake_line, o[1], build_dir))]
    IN  IF w.cwd \notin w.fs     \* not os.path.exists('..')
        THEN [w EXCEPT !.outcome = "BuildError"]
        ELSE IF build_system = None
        THEN [w EXCEPT !.outcome = "AttributeError"]
        ELSE IF made.raised # ""
        THEN [w EXCEPT !.fs = made.fs, !.outcome = "BuildError"]
        ELSE IF o[1] = "OSError"
        THEN [inDir EXCEPT !.outcome = "BuildError"]
        ELSE MakeAndInstall(inDir, bs, << o[2], o[3] >>, ldconfig, "BuildError")

\* build_command_configure(compiler_flags, prefix_path, executable,
\* build_system).  has_executable: the configure script is there for os.stat.
build_command_configure(w, compiler_flags, prefix_path, executable, bs, has_executable, o, ldconfig) ==
    LET abs_prefix_path == ExpandUser(prefix_path)
        compile_cmd == << executable, "--prefix=" \o abs_prefix_path >> \o compiler_flags
        configured == [w EXCEPT !.calls = Append(w.calls, Call(compile_cmd, o[1], w.cwd))]
    IN  IF ~has_executable
        THEN [w EXCEPT !.outcome = "FileNotFoundError"]
        ELSE IF o[1] = "OSError"
        THEN [configured EXCEPT !.outcome = "OSError"]
        ELSE MakeAndInstall(configured, bs, << o[2], o[3] >>, ldconfig, "OSError")

\* ------------------------------------------- collaborators outside src/
\* Platform.cmake_specific_flags(), configure_specific_flags() and
\* env_variables(): build_utils.py calls them on the resolved platform; the
\* Platform classes of system_info.py do not define them.
cmake_specific_flags(plat) ==
    IF plat.name = "android" THEN << "-DPLATFORM_ANDROID=ON", "-DBUILD_SHARED_LIBS=OFF" >>
    ELSE IF plat.name = "macosx" THEN << "-DPLATFORM_MACOSX=ON" >>
    ELSE << >>

configure_specific_flags(plat) ==
    IF plat.name = "android" THEN << "--host=arm-linux-androideabi" >> ELSE << >>

env_variables(plat) == << >>

\* SupportedPlatforms.get_architecture_by_arch_name: the name
\* BuildRequest.__init__ looks the architecture up by.
get_architecture_by_arch_name(family, arch_name) ==
    architecture_by_arch_name(family, arch_name)

\* The directory name utils.git_clone derives from the clone URL.
ClonedDirName(url) ==
    CASE url = "git@github.com:fastogt/snappy.git" -> "snappy"
      [] url = "git@github.com:fastogt/json-c.git" -> "json-c"
      [] url = "git@github.com:fastogt/libev.git" -> "libev"
      [] url = "git@github.com:fastogt/libcpuid.git" -> "libcpuid"
      [] url = "git@github.com:fastogt/common.git" -> "common"
      [] OTHER -> "repo"

\* utils.git_clone(url): the clone exists under the working directory when it
\* returns; a failed fetch raises.  The path it returns is w.fetched.
git_clone(w, url, fetch_ok) ==
    LET cloned_dir == w.cwd \o << ClonedDirName(url) >>
    IN  IF fetch_ok
        THEN [w EXCEPT !.fs = @ \cup {cloned_dir},
                       !.fetched = cloned_dir]
        ELSE [w EXCEPT !.outcome = "FetchError"]

\* utils.download_file(url) then utils.extract_file(file_path): the folder
\* the archive unpacks to, named after the archive.
download_and_extract(w, folder, fetch_ok) ==
    LET extracted_folder == w.cwd \o << folder >>
    IN  IF fetch_ok
        THEN [w EXCEPT !.fs = @ \cup {extracted_folder},
                       !.fetched = extracted_folder]
        ELSE [w EXCEPT !.outcome = "FetchError"]

\* ----------------------------------------------------------- BuildRequest
generate_fastogt_git_path(repo_name) == "git@github.com:fastogt/" \o repo_name \o ".git"

\* os.environ['PKG_CONFIG_PATH'] = '$PKG_CONFIG_PATH:%s/lib/pkgconfig/' % abs_prefix_path
\* The value is a ':'-separated list, held as the sequence of its entries.
SetPkgConfigPath(env, abs_prefix_path) ==
    [env EXCEPT !.PKG_CONFIG_PATH =
        << "$PKG_CONFIG_PATH", abs_prefix_path \o "/lib/pkgconfig/" >>]

\* for key, value in env.items(): os.environ[key] = value
UpdateEnviron(env, pairs) ==
    [k \in DOMAIN env |->
        IF \E i \in 1..Len(pairs) : pairs[i][1] = k
        THEN pairs[CHOOSE i \in 1..Len(pairs) :
                      pairs[i][1] = k /\ \A j \in (i + 1)..Len(pairs) : pairs[j][1] # k][2]
        ELSE env[k]]

\* the prefix choice taking the architecture's default whatever was passed
PrefixOrDefault_ignoring_argument(prefix_path, arch) ==
    arch.default_install_prefix_path

\* if not prefix_path: prefix_path = arch_or_none.default_install_prefix_path()
PrefixOrDefault(prefix_path, arch) ==
    IF prefix_path = "" THEN arch.default_install_prefix_path ELSE prefix_path

\* The architecture lookup of BuildRequest.__init__, line 105.  [raised, value]
LookupArchitecture(caps, family, arch_name) ==
    IF caps
    THEN [raised |-> "", value |-> get_architecture_by_arch_name(family, arch_name)]
    ELSE [raised |-> "AttributeError", value |-> None]

\* BuildRequest.__init__(platform, arch_name, dir_path, prefix_path).
\* s: [cwd, fs, environ, request, outcome]; caps: the registry classes define
\* the methods this module calls on them; dist_name: what the host reports.
BuildRequestInit(s, caps, platform, arch_name, dir_path, prefix_path, dist_name) ==
    LET platform_or_none == get_supported_platform_by_name(platform)
        looked == LookupArchitecture(caps, platform_or_none, arch_name)
        arch_or_none == looked.value
        abs_prefix_path == ExpandUser(PrefixOrDefault(prefix_path, arch_or_none))
        packages_types == platform_or_none.package_types
        build == make_platform_by_arch(platform_or_none, arch_or_none,
                                       packages_types, dist_name)
        build_platform == build.value
        env == UpdateEnviron(SetPkgConfigPath(s.environ, abs_prefix_path),
                             env_variables(build_platform))
        build_dir_path == AbsPath(s.cwd, dir_path)
        removed == IF build_dir_path \in s.fs THEN RmTree(s.fs, build_dir_path) ELSE s.fs
        made == Mkdir(removed, build_dir_path)
    IN  IF platform_or_none = None
        THEN [s EXCEPT !.outcome = "BuildError"]
        ELSE IF looked.raised # ""
        THEN [s EXCEPT !.outcome = looked.raised]
        ELSE IF arch_or_none = None
        THEN [s EXCEPT !.outcome = "BuildError"]
        ELSE IF build.raised # ""
        THEN [s EXCEPT !.outcome = build.raised]
        ELSE IF made.raised # ""
        THEN [s EXCEPT !.environ = env, !.fs = made.fs, !.outcome = made.raised]
        ELSE [s EXCEPT !.environ = env,
                       !.fs = made.fs,
                       !.cwd = build_dir_path,
                       !.request = [platform_ |-> build_platform,
                                    build_dir_path_ |-> build_dir_path,
                                    prefix_path_ |-> abs_prefix_path],
                       !.outcome = "ok"]

\* BuildRequest.build_dir_path() and BuildRequest.prefix_path()
BuildRequest_build_dir_path(req) == req.build_dir_path_

BuildRequest_prefix_path(req) == req.prefix_path_

\* _build_via_cmake with the platform's flags put before the caller's
build_via_cmake_platform_first(w, req, cmake_flags, o, ldconfig) ==
    build_command_cmake(w, req.prefix_path_,
                        cmake_specific_flags(req.platform_) \o cmake_flags,
                        "RELEASE", "ninja", o, ldconfig)

\* BuildRequest._build_via_cmake(cmake_flags, use_platform_flags=True):
\* cmake_flags_extended is the caller's list itself, extended in place.
build_via_cmake(w, req, cmake_flags, o, ldconfig) ==
    LET cmake_flags_extended == cmake_flags \o cmake_specific_flags(req.platform_)
    IN  build_command_cmake(w, req.prefix_path_, cmake_flags_extended,
                            "RELEASE", "ninja", o, ldconfig)

\* BuildRequest._build_via_configure(compiler_flags, executable, use_platform_flags)
build_via_configure(w, req, compiler_flags, executable, use_platform_flags, has_executable, o, ldconfig) ==
    LET compiler_flags_extended ==
            IF use_platform_flags
            THEN compiler_flags \o configure_specific_flags(req.platform_)
            ELSE compiler_flags
    IN  build_command_configure(w, compiler_flags_extended, req.prefix_path_,
                                executable, "make", has_executable, o, ldconfig)

\* os.chdir(pwd) as the last statement of a recipe: reached on a normal
\* return of what ran before it
ChdirBack(w, pwd) == IF w.outcome = "ok" THEN [w EXCEPT !.cwd = pwd] ELSE w

\* os.chdir(cloned_dir) after a fetch that returned
EnterFetched(w) == [w EXCEPT !.cwd = w.fetched]

\* BuildRequest._clone_and_build_via_cmake(url, cmake_flags)
clone_and_build_via_cmake(w, req, url, cmake_flags, fetch_ok, o, ldconfig) ==
    LET pwd == w.cwd
        cloned == git_clone(w, url, fetch_ok)
    IN  IF cloned.outcome # "ok" THEN cloned
        ELSE ChdirBack(build_via_cmake(EnterFetched(cloned), req, cmake_flags,
                                       o, ldconfig), pwd)

\* A native command run by a recipe itself (libtoolize, autoreconf, autogen)
RunTool(w, argv, rc) ==
    [w EXCEPT !.calls = Append(@, Call(argv, rc, w.cwd)),
              !.outcome = IF rc = "OSError" THEN "OSError" ELSE "ok"]

\* BuildRequest._clone_and_build_via_autogen(url, compiler_flags) with
\* _build_via_autogen: sh autogen.sh, then the configure build
clone_and_build_via_autogen(w, req, url, compiler_flags, fetch_ok, has_executable, o, ldconfig) ==
    LET pwd == w.cwd
        cloned == git_clone(w, url, fetch_ok)
        autogen == RunTool(EnterFetched(cloned), << "sh", "autogen.sh" >>, o[1])
    IN  IF cloned.outcome # "ok" THEN cloned
        ELSE IF autogen.outcome # "ok" THEN autogen
        ELSE ChdirBack(build_via_configure(autogen, req, compiler_flags, "./configure",
                           TRUE, has_executable, << o[2], o[3], o[4] >>, ldconfig), pwd)

\* BuildRequest.build_cpuid
build_cpuid(w, req, fetch_ok, has_executable, o, ldconfig) ==
    LET cpuid_compiler_flags == << "--disable-shared", "--enable-static" >>
        pwd == w.cwd
        cloned == git_clone(w, generate_fastogt_git_path("libcpuid"), fetch_ok)
        libtoolize_cpuid == IF req.platform_.name = "macosx"
                            THEN << "glibtoolize" >> ELSE << "libtoolize" >>
        tooled == RunTool(EnterFetched(cloned), libtoolize_cpuid, o[1])
        reconfed == RunTool(tooled, << "autoreconf", "--install" >>, o[2])
    IN  IF cloned.outcome # "ok" THEN cloned
        ELSE IF tooled.outcome # "ok" THEN tooled
        ELSE IF reconfed.outcome # "ok" THEN reconfed
        ELSE ChdirBack(build_via_configure(reconfed, req, cpuid_compiler_flags,
                           "./configure", TRUE, has_executable,
                           << o[3], o[4], o[5] >>, ldconfig), pwd)

\* BuildRequest.build_openssl(version) with _download_and_build_via_configure
build_openssl(w, req, version, fetch_ok, has_executable, o, ldconfig) ==
    LET compiler_flags == << "no-shared", "no-unit-test" >>
            \o (IF req.platform_.name = "android" THEN << "no-asm" >> ELSE << >>)
        pwd == w.cwd
        extracted == download_and_extract(w, "openssl-" \o version, fetch_ok)
    IN  IF extracted.outcome # "ok" THEN extracted
        ELSE ChdirBack(build_via_configure(EnterFetched(extracted), req, compiler_flags,
                           "./config", FALSE, has_executable, o, ldconfig), pwd)

\* BuildRequest.build_snappy
build_snappy(w, req, fetch_ok, o, ldconfig) ==
    clone_and_build_via_cmake(w, req, generate_fastogt_git_path("snappy"),
        << "-DBUILD_SHARED_LIBS=OFF", "-DSNAPPY_BUILD_TESTS=OFF" >>, fetch_ok, o, ldconfig)

\* BuildRequest.build_jsonc
build_jsonc(w, req, fetch_ok, o, ldconfig) ==
    clone_and_build_via_cmake(w, req, generate_fastogt_git_path("json-c"),
        << "-DBUILD_SHARED_LIBS=OFF" >>, fetch_ok, o, ldconfig)

\* BuildRequest.build_common(with_qt)
build_common(w, req, with_qt, fetch_ok, o, ldconfig) ==
    LET cmake_flags == IF with_qt THEN << "-DQT_ENABLED=ON" >> ELSE << >>
    IN  clone_and_build_via_cmake(w, req, generate_fastogt_git_path("common"),
                                  cmake_flags, fetch_ok, o, ldconfig)

\* BuildRequest.build_libev
build_libev(w, req, fetch_ok, has_executable, o, ldconfig) ==
    LET libev_compiler_flags == << "--with-pic", "--disable-shared", "--enable-static" >>
    IN  clone_and_build_via_autogen(w, req, generate_fastogt_git_path("libev"),
            libev_compiler_flags, fetch_ok, has_executable, o, ldconfig)

\* ------------------------------------------------------------------ state
VARIABLES
    caps,       \* the registry classes define the methods build_utils.py calls
    ldconfig,   \* shutil.which('ldconfig') finds the linker-cache tool
    cwd,        \* the process working directory
    fs,         \* the directories that exist
    environ,    \* os.environ
    cmdLines,   \* the cmd_line_ list of each catalog entry
    request,    \* the BuildRequest the caller's last constructor call returned,
                \* None before one and when it raised
    resolved,   \* the Platform the caller's last registry call returned,
                \* None before one and when it raised
    calls,      \* the native commands of the last operation, in order
    result,     \* the last operation: [op, args, outcome, pwd, removed]
    ops,        \* operations so far
    patchFiles  \* the patch files in the patch directory of the source a
                \* configure build is run on (0: there is no such directory)

vars == << caps, ldconfig, cwd, fs, environ, cmdLines, request, resolved, calls,
           result, ops, patchFiles >>

\* ----------------------------------------------------------------- inputs
PlatformArgs == {"linux", "windows", "macosx", "freebsd", "android", "bogus"}

\* the architecture names tried on a platform name: the family's own, one no
\* family has, and two that other families have
ArchArgs(platform) ==
    LET family == get_supported_platform_by_name(platform)
    IN  (IF family = None THEN {}
         ELSE {family.archs[j].name : j \in 1..Len(family.archs)})
        \cup {"sparc", "AMD64", "arm"}

DirArgs == {<< "build" >>, << "/", "w", "build" >>}

PrefixArgs == {"", "~/fastogt"}

HostDists == {"Ubuntu", "debian", "LinuxMint", "CentOS Linux", "Fedora", "rhel",
              "arch", "Gentoo"}

\* one distribution of each group, and one of none
SomeDists == {"Ubuntu", "CentOS Linux", "arch", "Gentoo"}

\* what platform.linux_distribution() may report where the family reads it
DistsFor(platform) == IF platform = "linux" THEN HostDists ELSE {"Ubuntu"}

BuildTypes == {"RELEASE", "Debug"}

PackageArgs == {"foo", "git"}

Home == << "w" >>

FreshFs == {<< >>, Home}

StaleFs == FreshFs \cup {Home \o << "build" >>, Home \o << "build", "old" >>}

\* ------------------------------------------------------------------- Init
Init ==
    /\ caps \in BOOLEAN
    /\ ldconfig \in BOOLEAN
    /\ cwd = Home
    /\ fs \in {FreshFs, StaleFs}
    /\ environ \in {[PKG_CONFIG_PATH |-> << >>],
                    [PKG_CONFIG_PATH |-> << "/opt/lib/pkgconfig" >>]}
    /\ cmdLines = [n \in BuildSystemNames |->
                      get_supported_build_system_by_name(n).cmd_line]
    /\ request = None
    /\ resolved = None
    /\ calls = << >>
    /\ result = [op |-> "import", args |-> << >>, outcome |-> "ok", pwd |-> Home,
                 removed |-> FALSE]
    /\ ops = 0
    /\ patchFiles = 0

\* The registry and the session constructor do not look for ldconfig.
InitSession ==
    /\ Init
    /\ ldconfig

\* Before any session: the drivers read neither the registry nor os.environ.
InitDrivers ==
    /\ Init
    /\ caps
    /\ environ.PKG_CONFIG_PATH = << >>

\* A source tree with a configure script, with or without patches for it.
InitConfigure ==
    /\ caps = TRUE
    /\ ldconfig \in BOOLEAN
    /\ cwd = Home
    /\ fs \in {FreshFs, StaleFs}
    /\ environ = [PKG_CONFIG_PATH |-> << >>]
    /\ cmdLines = [n \in BuildSystemNames |->
                      get_supported_build_system_by_name(n).cmd_line]
    /\ request = None
    /\ resolved = None
    /\ calls = << >>
    /\ result = [op |-> "import", args |-> << >>, outcome |-> "ok", pwd |-> Home,
                 removed |-> FALSE]
    /\ ops = 0
    /\ patchFiles \in 0..MaxPatches

\* ---------------------------------------------------------------- actions
World ==
    [cwd |-> cwd, fs |-> fs, cmdLines |-> cmdLines, calls |-> << >>,
     outcome |-> "ok", removed |-> FALSE, fetched |-> << >>]

Step == ops < MaxOps /\ ops' = ops + 1 /\ UNCHANGED patchFiles

Done(op, args, world) ==
    /\ Step
    /\ \E w \in {world} :
          /\ cwd' = w.cwd
          /\ fs' = w.fs
          /\ cmdLines' = w.cmdLines
          /\ calls' = w.calls
          /\ result' = [op |-> op, args |-> args, outcome |-> w.outcome, pwd |-> cwd,
                        removed |-> w.removed]

\* the catalog entry's list has room for the 'install' a driver call appends
Room(bs) ==
    bs \in BuildSystemNames =>
        Len(cmdLines[bs]) < Len(get_supported_build_system_by_name(bs).cmd_line) + MaxInstalls

\* the directories an operation creates below the working directory fit
Fits(levels) == Len(cwd) + levels <= MaxDepth

\* BuildRequest(platform, arch_name, dir_path, prefix_path)
NewBuildRequestOn(platforms, archs, dirs, dists) ==
    \E platform \in platforms, dir_path \in dirs, prefix_path \in PrefixArgs :
      \E arch_name \in ArchArgs(platform) \cap archs,
         dist_name \in DistsFor(platform) \cap dists :
        \E s \in {BuildRequestInit(
                    [cwd |-> cwd, fs |-> fs, environ |-> environ,
                     request |-> request, outcome |-> "ok"],
                    caps, platform, arch_name, dir_path, prefix_path, dist_name)} :
            /\ Len(AbsPath(cwd, dir_path)) <= MaxDepth
            /\ Step
            /\ cwd' = s.cwd
            /\ fs' = s.fs
            /\ environ' = s.environ
            /\ request' = IF s.outcome = "ok" THEN s.request ELSE None
            /\ calls' = << >>
            /\ result' = [op |-> "BuildRequest",
                          args |-> << platform, arch_name, prefix_path, dist_name >>,
                          outcome |-> s.outcome, pwd |-> cwd, removed |-> FALSE]
            /\ UNCHANGED << caps, ldconfig, cmdLines, resolved >>

NewBuildRequest ==
    NewBuildRequestOn(PlatformArgs, UNION {ArchArgs(p) : p \in PlatformArgs},
                      DirArgs, SomeDists)

\* the sessions the build recipes are exercised on
NewBuildSession ==
    NewBuildRequestOn({"linux", "macosx", "android", "bogus"}, {"x86_64", "arm"},
                      {<< "build" >>}, {"Ubuntu"})

BuildSnappy ==
    /\ request # None /\ Room("ninja") /\ Fits(3)
    /\ \E fetch_ok \in BOOLEAN, o \in StepOutcomes(3) :
          Done("build_snappy", << >>, build_snappy(World, request, fetch_ok, o, ldconfig))
    /\ UNCHANGED << caps, ldconfig, environ, request, resolved >>

BuildJsonc ==
    /\ request # None /\ Room("ninja") /\ Fits(3)
    /\ \E fetch_ok \in BOOLEAN, o \in StepOutcomes(3) :
          Done("build_jsonc", << >>, build_jsonc(World, request, fetch_ok, o, ldconfig))
    /\ UNCHANGED << caps, ldconfig, environ, request, resolved >>

BuildCommon ==
    /\ request # None /\ Room("ninja") /\ Fits(3)
    /\ \E with_qt \in BOOLEAN, fetch_ok \in BOOLEAN, o \in StepOutcomes(3) :
          Done("build_common", << IF with_qt THEN "with_qt" ELSE "" >>,
               build_common(World, request, with_qt, fetch_ok, o, ldconfig))
    /\ UNCHANGED << caps, ldconfig, environ, request, resolved >>

BuildLibev ==
    /\ request # None /\ Room("make") /\ Fits(1)
    /\ \E fetch_ok \in BOOLEAN, has_executable \in BOOLEAN, o \in StepOutcomes(4) :
          Done("build_libev", << >>,
               build_libev(World, request, fetch_ok, has_executable, o, ldconfig))
    /\ UNCHANGED << caps, ldconfig, environ, request, resolved >>

BuildCpuid ==
    /\ request # None /\ Room("make") /\ Fits(1)
    /\ \E fetch_ok \in BOOLEAN, has_executable \in BOOLEAN, o \in StepOutcomes(5) :
          Done("build_cpuid", << >>,
               build_cpuid(World, request, fetch_ok, has_executable, o, ldconfig))
    /\ UNCHANGED << caps, ldconfig, environ, request, resolved >>

BuildOpenssl ==
    /\ request # None /\ Room("make") /\ Fits(1)
    /\ \E version \in {"1.1.1"}, fetch_ok \in BOOLEAN, has_executable \in BOOLEAN,
          o \in StepOutcomes(3) :
          Done("build_openssl", << version >>,
               build_openssl(World, request, version, fetch_ok, has_executable,
                             o, ldconfig))
    /\ UNCHANGED << caps, ldconfig, environ, request, resolved >>

\* the sessions that platform resolution is exercised on: a family that
\* asks the host for its distribution, and one that does not
NewHostRequest ==
    NewBuildRequestOn({"linux", "freebsd"}, {"x86_64", "sparc"},
                      {<< "build" >>}, SomeDists)

\* a caller in a cmake folder calls the CMake driver itself
CallBuildCommandCMake ==
    /\ Fits(2)
    /\ \E build_type \in BuildTypes, bs \in {"ninja", "gmake", "scons"},
          o \in StepOutcomes(3) :
          /\ Room(bs)
          /\ Done("build_command_cmake", << build_type, bs >>,
                  build_command_cmake(World, "~/fastogt", << "-DCALLER=1" >>,
                                      build_type, bs, o, ldconfig))
    /\ UNCHANGED << caps, ldconfig, environ, request, resolved >>

\* a caller in a configure folder calls the configure driver itself
CallBuildCommandConfigure ==
    /\ \E bs \in {"make", "gmake"}, has_executable \in BOOLEAN, o \in StepOutcomes(3) :
          /\ Room(bs)
          /\ Done("build_command_configure", << bs >>,
                  build_command_configure(World, << "--with-pic" >>, "~/fastogt",
                                          "./configure", bs, has_executable, o, ldconfig))
    /\ UNCHANGED << caps, ldconfig, environ, request, resolved >>

\* a caller resolves a platform through the registry: get_supported_platform_by_name,
\* architecture_by_arch_name, make_platform_by_arch
MakePlatform ==
    \E platform \in PlatformArgs \ {"bogus"} :
      \E arch_name \in ArchArgs(platform), dist_name \in DistsFor(platform) :
        LET family == get_supported_platform_by_name(platform)
            arch == architecture_by_arch_name(family, arch_name)
            made == make_platform_by_arch(family, arch, family.package_types, dist_name)
        IN  /\ arch # None
            /\ Step
            /\ resolved' = made.value
            /\ calls' = << >>
            /\ result' = [op |-> "make_platform_by_arch",
                          args |-> << platform, arch_name, dist_name >>,
                          outcome |-> IF made.raised = "" THEN "ok" ELSE made.raised,
                          pwd |-> cwd, removed |-> FALSE]
            /\ UNCHANGED << caps, ldconfig, cwd, fs, environ, cmdLines, request >>

\* Platform.install_package(name) on a platform the caller holds
InstallPackage ==
    \E plat \in {resolved, IF request = None THEN None ELSE request.platform_} \ {None},
       name \in PackageArgs, rc \in Rcs :
        LET inst == install_package(plat, name)
        IN  /\ Step
            /\ calls' = IF inst.raised = "" THEN << Call(inst.argv, rc, cwd) >> ELSE << >>
            /\ result' = [op |-> "install_package",
                          args |-> << plat.cls, name >>,
                          outcome |-> IF inst.raised # "" THEN inst.raised
                                      ELSE IF rc = "OSError" THEN "OSError" ELSE "ok",
                          pwd |-> cwd, removed |-> FALSE]
            /\ UNCHANGED << caps, ldconfig, cwd, fs, environ, cmdLines, request, resolved >>

\* the caller changes into a source folder before it calls a driver
\* ("must be in cmake folder", "must be in configure folder")
EnterFolder ==
    \E d \in fs :
        /\ d # cwd /\ d # << >>
        /\ Last(d) # "CMakeFiles"
        /\ Step
        /\ cwd' = d
        /\ calls' = << >>
        /\ result' = [op |-> "chdir", args |-> << >>, outcome |-> "ok", pwd |-> cwd,
                      removed |-> FALSE]
        /\ UNCHANGED << caps, ldconfig, fs, environ, cmdLines, request, resolved >>

\* --------------------------------------------------------- specifications
\* The registry, as a caller uses it.
NextRegistry ==
    \/ MakePlatform
    \/ InstallPackage

SpecRegistry == InitSession /\ [][NextRegistry]_vars

\* The session constructor, on every platform and architecture name.
NextSession ==
    \/ NewBuildRequest
    \/ InstallPackage

SpecSession == InitSession /\ [][NextSession]_vars

\* The build recipes of a session.
NextRecipes ==
    \/ NewBuildSession
    \/ BuildSnappy
    \/ BuildJsonc
    \/ BuildCommon
    \/ BuildLibev
    \/ BuildCpuid
    \/ BuildOpenssl

SpecRecipes == Init /\ [][NextRecipes]_vars

\* The two drivers, called by a caller that is in a source folder.
NextDrivers ==
    \/ CallBuildCommandCMake
    \/ CallBuildCommandConfigure
    \/ EnterFolder

SpecDrivers == InitDrivers /\ [][NextDrivers]_vars

\* The configure driver on source trees that may come with patches.
NextConfigure ==
    \/ CallBuildCommandConfigure
    \/ EnterFolder

SpecConfigure == InitConfigure /\ [][NextConfigure]_vars

\* Platform resolution on every host, through the registry and through the
\* session constructor.
NextHosts ==
    \/ MakePlatform
    \/ NewHostRequest

SpecHosts == InitSession /\ [][NextHosts]_vars

\* ----------------------------------------------------------------- claims
\* What the specification lists, written out: the architectures of each
\* family and the distributions of each group.
ListedArchs(platform) ==
    CASE platform = "linux" -> {"x86_64", "i386", "i686", "aarch64", "armv7l", "armv6l"}
      [] platform = "windows" -> {"x86_64", "AMD64", "i386", "i686"}
      [] platform = "macosx" -> {"x86_64"}
      [] platform = "freebsd" -> {"x86_64", "amd64"}
      [] platform = "android" -> {"arm", "i386"}
      [] OTHER -> {}

DebianHosts == {"Ubuntu", "debian", "LinuxMint"}

RhelHosts == {"CentOS Linux", "Fedora", "rhel"}

ArchHosts == {"arch"}

RecipeOps == {"build_snappy", "build_jsonc", "build_libev", "build_cpuid",
              "build_common", "build_openssl"}

\* the last step was a BuildRequest constructor call
Constructed == ops' # ops /\ result'.op = "BuildRequest"

\* C1: a BuildRequest constructor call with a platform name outside the
\* registry, or an architecture name that is not one of the family's, raises
\* BuildError and leaves the directories and the working directory as they
\* were.
C1_InvalidNamesRaiseBuildError ==
    [][(Constructed /\ result'.args[2] \notin ListedArchs(result'.args[1]))
          => (result'.outcome = "BuildError" /\ fs' = fs /\ cwd' = cwd)]_vars

\* C2: after a recipe call, however it ended, the working directory is the
\* one the call started in.
C2_RecipeKeepsWorkingDirectory ==
    result.op \in RecipeOps => cwd = result.pwd

\* C3: after a call of the CMake driver, returned or raised, the working
\* directory is the one the call started in.
C3_DriverRestoresWorkingDirectory ==
    result.op = "build_command_cmake" => cwd = result.pwd

\* C4: in a CMake driver call, a native step (cmake, build, install) that
\* exits non-zero is the last native command of the call, and the call ends
\* in BuildError.
C4_NonZeroExitRaises ==
    result.op = "build_command_cmake" =>
        \A i \in 1..Len(calls) :
            (calls[i].rc = "1" /\ calls[i].argv # << "ldconfig" >>)
                => (result.outcome = "BuildError" /\ i = Len(calls))

\* C5: a BuildRequest constructor call with a family of the registry and
\* one of its architectures (on linux: on a host of a recognised
\* distribution) returns a request whose platform has the requested name and
\* architecture.
C5_SupportedPairsResolve ==
    (/\ result.op = "BuildRequest"
     /\ result.args[2] \in ListedArchs(result.args[1])
     /\ (result.args[1] = "linux"
            => result.args[4] \in DebianHosts \cup RhelHosts \cup ArchHosts))
        => (/\ result.outcome = "ok"
            /\ request # None
            /\ request.platform_.name = result.args[1]
            /\ request.platform_.arch.name = result.args[2])

\* The flags each CMake recipe hands to _clone_and_build_via_cmake, as the
\* recipes of build_utils.py list them.
C6_CallerFlags(op, args) ==
    CASE op = "build_snappy" -> << "-DBUILD_SHARED_LIBS=OFF", "-DSNAPPY_BUILD_TESTS=OFF" >>
      [] op = "build_jsonc" -> << "-DBUILD_SHARED_LIBS=OFF" >>
      [] op = "build_common" ->
           IF args[1] = "with_qt" THEN << "-DQT_ENABLED=ON" >> ELSE << >>

C6_FixedArguments ==
    << "cmake", "..", "-G", "Ninja", "-DCMAKE_BUILD_TYPE=RELEASE" >>

C6_CMakeRecipeRan ==
    /\ result.op \in {"build_snappy", "build_jsonc", "build_common"}
    /\ Len(calls) >= 1

C7_BuildDirName(build_type) ==
    CASE build_type = "RELEASE" -> "build_cmake_release"
      [] build_type = "Debug" -> "build_cmake_debug"

\* C7: a CMake driver call with a build system of the catalog gets as far
\* as running cmake, in build_cmake_<build type lowercased> under the
\* directory it was called in, and that directory then holds nothing but
\* what this cmake run wrote: whatever an earlier call left there is gone.
C7_StaleBuildDirectoryReplaced ==
    (result.op = "build_command_cmake" /\ result.args[2] \in BuildSystemNames) =>
        LET dir == result.pwd \o << C7_BuildDirName(result.args[1]) >>
        IN  /\ Len(calls) >= 1
            /\ calls[1].argv[1] = "cmake"
            /\ calls[1].dir = dir
            /\ dir \in fs
            /\ \A p \in fs :
                  (IsPrefix(dir, p) /\ p # dir)
                      => (p = dir \o << "CMakeFiles" >> /\ calls[1].rc # "OSError")

\* a second call in the same source directory found the first call's build
\* directory, removed it and went through
C7_Witness ==
    /\ result.op = "build_command_cmake"
    /\ result.removed
    /\ result.outcome = "ok"
    /\ result.pwd = Home

\* C8: a BuildRequest constructor call that returns leaves in
\* PKG_CONFIG_PATH every entry that was there before it, and the prefix's
\* lib/pkgconfig directory.
C8_PkgConfigPathExtended ==
    [][(Constructed /\ result'.outcome = "ok")
          => /\ Range(environ.PKG_CONFIG_PATH) \subseteq Range(environ'.PKG_CONFIG_PATH)
             /\ \/ request'.prefix_path_ \o "/lib/pkgconfig"
                      \in Range(environ'.PKG_CONFIG_PATH)
                \/ request'.prefix_path_ \o "/lib/pkgconfig/"
                      \in Range(environ'.PKG_CONFIG_PATH)]_vars

\* C9: in a configure driver call that ran configure on a source tree with
\* N patch files, configure is the native command number N + 1 and the N
\* before it are runs of the patch utility.
C9_PatchesBeforeConfigure ==
    (result.op = "build_command_configure" /\ Len(calls) >= 1) =>
        /\ Len(calls) > patchFiles
        /\ calls[patchFiles + 1].argv[1] = "./configure"
        /\ \A i \in 1..patchFiles : calls[i].argv[1] = "patch"

C10_Installer(platform, dist_name, name) ==
    CASE platform = "linux" /\ dist_name \in DebianHosts ->
           << "apt-get", "-y", "--no-install-recommends", "install", name >>
      [] platform = "linux" /\ dist_name \in RhelHosts ->
           << "yum", "-y", "install", name >>
      [] platform = "linux" /\ dist_name \in ArchHosts ->
           << "pacman", "-S", "--noconfirm", name >>

\* install_package called on the platform the step before resolved
C10_InstallsOnResolved ==
    /\ ops' # ops
    /\ result.op = "make_platform_by_arch"
    /\ result.outcome = "ok"
    /\ result'.op = "install_package"

C11_UnknownHost(platform, dist_name) ==
    /\ platform = "linux"
    /\ dist_name \notin DebianHosts \cup RhelHosts \cup ArchHosts

C12_BuildSystemOf(r) ==
    IF r.op = "build_command_cmake" THEN r.args[2] ELSE r.args[1]

\* C12: in a driver call with a build system of the catalog, the build
\* step runs the command line the catalog was written with, the install
\* step runs that line with one 'install' after it, and after the call the
\* catalog entry still holds the line it was written with.
C12_CatalogCommandLineKept ==
    (/\ result.op \in {"build_command_cmake", "build_command_configure"}
     /\ C12_BuildSystemOf(result) \in BuildSystemNames) =>
        LET base == get_supported_build_system_by_name(C12_BuildSystemOf(result)).cmd_line
        IN  /\ cmdLines[C12_BuildSystemOf(result)] = base
            /\ Len(calls) >= 2 => calls[2].argv = base
            /\ Len(calls) >= 3 => calls[3].argv = base \o << "install" >>

\* The prefix a constructor call fixes: the one passed, with the user's
\* home written out, or the default of the architecture as the registry of
\* system_info.py lists it.
C13_Prefix(platform, arch_name, prefix) ==
    CASE prefix = "~/fastogt" -> "/home/user/fastogt"
      [] prefix = "" /\ platform \in {"linux", "macosx"} -> "/usr/local"
      [] prefix = "" /\ platform = "android" /\ arch_name = "arm" ->
           "/opt/android-ndk/platforms/android-16/arch-arm/usr/"

====
